---- MODULE Spec2Model ----
(***************************************************************************)
(* State-machine model of the research assistant's tool-routing loop:      *)
(*   backend/main.py            /research handler, lifespan startup        *)
(*   backend/research_graph.py  initialize_research_graph,                 *)
(*                              run_research_graph, the graph's wiring     *)
(*   backend/graph_functions.py run_oracle, router, rag_search,            *)
(*                              web_search, snowflake_search,              *)
(*                              generate_final_answer                      *)
(* Texts are TLA+ strings, built and scanned character by character the    *)
(* way the Python code builds and scans them.  Emoji of the source's       *)
(* literals are written as ASCII names between colons (":news:").          *)
(***************************************************************************)
EXTENDS Integers, Sequences, FiniteSets, TLC

VARIABLES
    pc,            \* position of the /research request: startup, serving, a node name, END, responded
    request,       \* the ResearchRequest being served, or NoRequest
    state,         \* the run state threaded through the graph (ResearchState), or NoState
    response,      \* what the handler answered, or NoResponse
    exception,     \* the exception a node raised in this run, or NoException
    GLOBAL_GRAPH,  \* research_graph._GLOBAL_GRAPH: None or the identity of a compiled graph
    graphs_built,  \* how many times graph.compile() ran in this process
    callers,       \* concurrent callers of initialize_research_graph: position, local graph, returned graph
    trace,         \* node executions of the run, in order
    llm_calls,     \* llm.invoke calls made by run_oracle in this run
    adapter_runs,  \* adapter node executions of this run: the node and what its backend did
    keeps_undeclared, \* whether the graph library keeps update keys ResearchState does not declare
    runs,          \* concurrent calls of run_research_graph: position, run state, node executions
    lists,         \* the list objects the histories of the concurrent runs live in, by identity
    probe          \* a call of router and run_oracle on a given run state: arguments and results

vars == <<pc, request, state, response, exception, GLOBAL_GRAPH, graphs_built, callers,
          trace, llm_calls, adapter_runs, keeps_undeclared, runs, lists, probe>>

\* _GLOBAL_GRAPH = None; compiled graphs are numbered from 1
NoGraph == 0
NoRequest == [none |-> TRUE]
NoState == [none |-> TRUE]
NoResponse == [status |-> 0]
NoException == [raised |-> FALSE]

-----------------------------------------------------------------------------
(* Python string primitives *)

Char(s, i) == SubSeq(s, i, i)

\* sub in s
Contains(s, sub) ==
    \E i \in 1..(Len(s) - Len(sub) + 1) : SubSeq(s, i, i + Len(sub) - 1) = sub

\* s.startswith(p)
StartsWith(s, p) == Len(s) >= Len(p) /\ SubSeq(s, 1, Len(p)) = p

\* s[i:].startswith(p), i counted from 1
StartsWithAt(s, i, p) == i + Len(p) - 1 <= Len(s) /\ SubSeq(s, i, i + Len(p) - 1) = p

\* min(S) of a non-empty set of integers
Min(S) == CHOOSE x \in S : \A y \in S : x <= y

\* s.find(sub) counted from 1; 0 when absent
Find(s, sub) ==
    LET at == {i \in 1..(Len(s) - Len(sub) + 1) : SubSeq(s, i, i + Len(sub) - 1) = sub}
    IN  IF at = {} THEN 0 ELSE Min(at)

UpperChars == "ABCDEFGHIJKLMNOPQRSTUVWXYZ"
LowerChars == "abcdefghijklmnopqrstuvwxyz"
Whitespace == {" ", "\n", "\t", "\r"}

LowerChar(c) ==
    IF \E i \in 1..Len(UpperChars) : Char(UpperChars, i) = c
    THEN Char(LowerChars, CHOOSE i \in 1..Len(UpperChars) : Char(UpperChars, i) = c)
    ELSE c

RECURSIVE StrLower(_)
\* s.lower()
StrLower(s) ==
    IF s = "" THEN "" ELSE LowerChar(Char(s, 1)) \o StrLower(SubSeq(s, 2, Len(s)))

RECURSIVE LStrip(_)
LStrip(s) ==
    IF s # "" /\ Char(s, 1) \in Whitespace THEN LStrip(SubSeq(s, 2, Len(s))) ELSE s

RECURSIVE RStrip(_)
RStrip(s) ==
    IF s # "" /\ Char(s, Len(s)) \in Whitespace THEN RStrip(SubSeq(s, 1, Len(s) - 1)) ELSE s

\* s.strip()
StrStrip(s) == RStrip(LStrip(s))

RECURSIVE Join(_, _)
\* sep.join(parts)
Join(sep, parts) ==
    IF parts = <<>> THEN ""
    ELSE IF Len(parts) = 1 THEN parts[1]
    ELSE parts[1] \o sep \o Join(sep, Tail(parts))

-----------------------------------------------------------------------------
(* state.py *)

\* AgentAction(tool, tool_input, log)
AgentAction(tool, tool_input, log) ==
    [tool |-> tool, tool_input |-> tool_input, log |-> log]

\* The keys ResearchState declares
ResearchStateKeys == {"input", "chat_history", "intermediate_steps", "metadata_filters", "mode"}

\* A dict is its items in insertion order: <<key, value>> pairs
DictKeys(d) == {d[i][1] : i \in 1..Len(d)}
DictValues(d) == [i \in 1..Len(d) |-> d[i][2]]

-----------------------------------------------------------------------------
(* graph_functions.py: run_oracle *)

all_tools == {"web_search", "pinecone", "snowflake"}

\* used_tools forgetting a tool whose result, the last Action, is an error text
used_tools_SkipsErrors(st) ==
    LET steps == st.intermediate_steps
        n == Len(steps)
    IN  IF n >= 2 /\ StartsWith(steps[n].log, "Error")
        THEN [i \in 1..(n - 2) |-> steps[i].tool]
        ELSE [i \in 1..n |-> steps[i].tool]

\* used_tools = [step.tool for step in state["intermediate_steps"]]
used_tools(st) ==
    [i \in 1..Len(st.intermediate_steps) |-> st.intermediate_steps[i].tool]

\* used_real_tools with the names of the result Actions taken for tool names
used_real_tools_ByResultName(st) ==
    {t \in all_tools : \E i \in 1..Len(used_tools(st)) : used_tools(st)[i] = t \o "_result"}

\* used_real_tools = {tool for tool in used_tools if tool in all_tools}
used_real_tools(st) ==
    {t \in all_tools : \E i \in 1..Len(used_tools(st)) : used_tools(st)[i] = t}

\* unused_tools without the subtraction of line 69
unused_tools_AllTools(st) == all_tools

unused_tools(st) == all_tools \ used_real_tools(st)

\* OracleBranch without the test of line 31
OracleBranch_NoUsedTest(st) ==
    IF st.mode \in {"pinecone", "web_search", "snowflake"}
    THEN "single_first"
    ELSE IF st.mode = "combined"
    THEN (IF used_tools(st) = <<>> THEN "combined_first"
          ELSE IF Cardinality(used_real_tools(st)) < Cardinality(all_tools)
               THEN "combined_next"
               ELSE "combined_done")
    ELSE "unbound"

\* OracleBranch taking every mode that is not a single tool for "combined"
OracleBranch_ElseCombined(st) ==
    IF st.mode \in {"pinecone", "web_search", "snowflake"}
    THEN (IF used_tools(st) = <<>> THEN "single_first" ELSE "single_done")
    ELSE (IF used_tools(st) = <<>> THEN "combined_first"
          ELSE IF Cardinality(used_real_tools(st)) < Cardinality(all_tools)
               THEN "combined_next"
               ELSE "combined_done")

\* Which branch of lines 30-101 the oracle takes
OracleBranch(st) ==
    IF st.mode \in {"pinecone", "web_search", "snowflake"}
    THEN (IF used_tools(st) = <<>> THEN "single_first" ELSE "single_done")
    ELSE IF st.mode = "combined"
    THEN (IF used_tools(st) = <<>> THEN "combined_first"
          ELSE IF Cardinality(used_real_tools(st)) < Cardinality(all_tools)
               THEN "combined_next"
               ELSE "combined_done")
    ELSE "unbound"

\* The branches that call llm.invoke
ConsultsLLM(st) == OracleBranch(st) \in {"combined_first", "combined_next"}

\* ChosenTool without the validation of lines 95-96
ChosenTool_NoValidation(st, reply, pick) ==
    LET branch == OracleBranch(st)
        answer == StrLower(StrStrip(reply))
    IN  CASE branch = "single_first" -> st.mode
          [] branch = "single_done" -> "final_answer"
          [] branch = "combined_first" -> answer
          [] branch = "combined_next" -> answer
          [] branch = "combined_done" -> "final_answer"

\* chosen_tool as lines 30-101 leave it: reply is the content the model
\* returned (used by the two LLM branches only), pick is next(iter(unused_tools))
ChosenTool(st, reply, pick) ==
    LET branch == OracleBranch(st)
        answer == StrLower(StrStrip(reply))
    IN  CASE branch = "single_first" -> st.mode
          [] branch = "single_done" -> "final_answer"
          [] branch = "combined_first" -> answer
          [] branch = "combined_next" ->
                IF answer \notin unused_tools(st) THEN pick ELSE answer
          [] branch = "combined_done" -> "final_answer"

\* Normalize testing for "web" before "pinecone"
Normalize_WebFirst(chosen_tool) ==
    IF Contains(chosen_tool, "web") THEN "web_search"
    ELSE IF Contains(chosen_tool, "pinecone") THEN "pinecone"
    ELSE IF Contains(chosen_tool, "snow") THEN "snowflake"
    ELSE "final_answer"

\* Lines 103-111
Normalize(chosen_tool) ==
    IF Contains(chosen_tool, "pinecone") THEN "pinecone"
    ELSE IF Contains(chosen_tool, "web") THEN "web_search"
    ELSE IF Contains(chosen_tool, "snow") THEN "snowflake"
    ELSE "final_answer"

\* OracleUpdate returning emptied metadata_filters along with the history
OracleUpdate_ResetsFilters(st, chosen_tool) ==
    [intermediate_steps |->
        Append(st.intermediate_steps,
               AgentAction(chosen_tool,
                           [query |-> st.input, metadata_filters |-> st.metadata_filters],
                           "Selected " \o chosen_tool \o " based on mode: " \o st.mode)),
     metadata_filters |-> <<>>]

\* Lines 116-126: the update run_oracle returns
OracleUpdate(st, chosen_tool) ==
    [intermediate_steps |->
        Append(st.intermediate_steps,
               AgentAction(chosen_tool,
                           [query |-> st.input, metadata_filters |-> st.metadata_filters],
                           "Selected " \o chosen_tool \o " based on mode: " \o st.mode))]

-----------------------------------------------------------------------------
(* graph_functions.py: router, and the wiring of research_graph.py *)

tool_to_node ==
    << <<"pinecone", "rag_search">>, <<"web_search", "web_search">>,
       <<"snowflake", "snowflake_search">>, <<"final_answer", "final_answer">> >>

\* dict.get(key): the value, or None
DictGet(d, key) ==
    IF key \in DictKeys(d)
    THEN d[CHOOSE i \in 1..Len(d) : d[i][1] = key][2]
    ELSE "None"

\* router looking at the first Action of the history instead of the last
router_FirstTool(st) ==
    IF st.intermediate_steps # <<>>
    THEN DictGet(tool_to_node, st.intermediate_steps[1].tool)
    ELSE "final_answer"

\* Lines 128-158
router(st) ==
    IF st.intermediate_steps # <<>>
    THEN DictGet(tool_to_node, st.intermediate_steps[Len(st.intermediate_steps)].tool)
    ELSE "final_answer"

AdapterNodes == {"rag_search", "web_search", "snowflake_search"}

\* NextNode with the adapters wired to final_answer instead of oracle
NextNode_AdapterToFinal(node, st) ==
    CASE node = "oracle" -> router(st)
      [] node \in AdapterNodes -> "final_answer"
      [] node = "final_answer" -> "END"

\* The node the compiled graph runs after `node` has updated the state to st:
\* the conditional edge of oracle, the edges back to oracle, final_answer -> END
NextNode(node, st) ==
    CASE node = "oracle" -> router(st)
      [] node \in AdapterNodes -> "oracle"
      [] node = "final_answer" -> "END"

\* The graph library writes a node's update into the state
ApplyUpdate(st, update, keeps) ==
    LET keys == {k \in DOMAIN update : k \in ResearchStateKeys \/ keeps}
    IN  [k \in DOMAIN st \cup keys |-> IF k \in keys THEN update[k] ELSE st[k]]

-----------------------------------------------------------------------------
(* graph_functions.py: rag_search *)

\* pinecone_db.py lines 143-148 with every year given the quarters of all years
FilterCriteria_QuartersPooled(year_quarter_dict) ==
    [k \in 1..Len(year_quarter_dict) |->
        [year |-> [op |-> "$eq", value |-> year_quarter_dict[k][1]],
         quarter |-> [op |-> "$in",
                      value |-> {q \in {"1", "2", "3", "4"} :
                                    \E m \in 1..Len(year_quarter_dict) :
                                        \E j \in 1..Len(year_quarter_dict[m][2]) :
                                            year_quarter_dict[m][2][j] = q}]]]

\* pinecone_db.py lines 143-148: filter_criteria, the list under "$or"; one
\* clause per item of the dict, the "$in" list kept as the set of its elements
FilterCriteria(year_quarter_dict) ==
    [k \in 1..Len(year_quarter_dict) |->
        [year |-> [op |-> "$eq", value |-> year_quarter_dict[k][1]],
         quarter |-> [op |-> "$in",
                      value |-> {year_quarter_dict[k][2][j] :
                                    j \in 1..Len(year_quarter_dict[k][2])}]]]

\* One condition of a clause on the metadata value of a record
Condition(cond, value) ==
    CASE cond.op = "$eq" -> value = cond.value
      [] cond.op = "$in" -> value \in cond.value

\* The filtered query of lines 151-156: a record is accepted when some
\* clause under "$or" holds, a clause being the AND of its fields' conditions
Matches(filter_criteria, rec) ==
    \E k \in 1..Len(filter_criteria) :
        /\ Condition(filter_criteria[k].year, rec.year)
        /\ Condition(filter_criteria[k].quarter, rec.quarter)

\* No filter was built: the backend raised before line 143
NoFilter == [none |-> TRUE]

\* str(result) of lines 180-190.  The backend either returns a text
\* (search_pinecone_db's answer, or one of its fixed messages) or raises
\* before its own try block (the query embedding, pinecone_db.py line 140).
RagResult(outcome) ==
    IF outcome.kind = "returns" THEN outcome.text
    ELSE "Error searching Pinecone: " \o outcome.error

\* RagUpdate returning the result Action alone, without the history before it
RagUpdate_Replaces(st, outcome) ==
    LET tool_input == st.intermediate_steps[Len(st.intermediate_steps)].tool_input
    IN  [intermediate_steps |->
            <<AgentAction("rag_search_result", tool_input, RagResult(outcome))>>]

\* Lines 194-202
RagUpdate(st, outcome) ==
    LET tool_input == st.intermediate_steps[Len(st.intermediate_steps)].tool_input
    IN  [intermediate_steps |->
            Append(st.intermediate_steps,
                   AgentAction("rag_search_result", tool_input, RagResult(outcome)))]

-----------------------------------------------------------------------------
(* graph_functions.py: web_search *)

Digits == "0123456789"
\* str(i) for one-digit i
IntStr(i) == Char(Digits, i + 1)

RECURSIVE FormatNews(_, _)
\* Lines 231-234, items i..len
FormatNews(items, i) ==
    IF i > Len(items) THEN ""
    ELSE "**" \o IntStr(i) \o ". [" \o items[i].title \o "](" \o items[i].link \o ")**\n"
         \o ":date: " \o items[i].date \o " | :link: [" \o items[i].source \o "]("
         \o items[i].link \o ")\n"
         \o "Summary: " \o items[i].snippet \o "\n\n"
         \o FormatNews(items, i + 1)

RECURSIVE FormatTrends(_, _)
\* Lines 239-242, items i..len
FormatTrends(items, i) ==
    IF i > Len(items) THEN ""
    ELSE "**" \o IntStr(i) \o ". [" \o items[i].title \o "](" \o items[i].link \o ")**\n"
         \o "Source: [" \o items[i].source \o "](" \o items[i].link \o ")\n"
         \o "Key Points: " \o items[i].snippet \o "\n\n"
         \o FormatTrends(items, i + 1)

\* Lines 226-249
FormatWebResults(search_results) ==
    "### Recent News and Analysis\n\n"
    \o (IF search_results.news # <<>>
        THEN "#### :news: Latest News\n\n" \o FormatNews(search_results.news, 1)
        ELSE "")
    \o (IF search_results.trends # <<>>
        THEN "#### :chart: Market Trends & Analysis\n\n" \o FormatTrends(search_results.trends, 1)
        ELSE "")
    \o (IF search_results.insights # ""
        THEN "#### :search: Analysis\n\n" \o search_results.insights \o "\n\n"
        ELSE "")

\* WebResult with another wording for the reported error of line 222
WebResult_OtherWording(outcome) ==
    CASE outcome.kind = "status_error" -> "Web search failed: " \o outcome.error
      [] outcome.kind = "success" -> FormatWebResults(outcome)
      [] outcome.kind = "raises" -> "Error searching web: " \o outcome.error

\* result of lines 217-255: WebSearchAgent.run reports status "error", or
\* reports success, or an exception is raised inside the node's try block
WebResult(outcome) ==
    CASE outcome.kind = "status_error" -> "Error in web search: " \o outcome.error
      [] outcome.kind = "success" -> FormatWebResults(outcome)
      [] outcome.kind = "raises" -> "Error searching web: " \o outcome.error

\* WebUpdate echoing the query alone as tool_input
WebUpdate_QueryOnly(st, outcome) ==
    LET tool_input == st.intermediate_steps[Len(st.intermediate_steps)].tool_input
    IN  [intermediate_steps |->
            Append(st.intermediate_steps,
                   AgentAction("web_search_result", [query |-> tool_input.query],
                               WebResult(outcome)))]

\* Lines 259-265
WebUpdate(st, outcome) ==
    LET tool_input == st.intermediate_steps[Len(st.intermediate_steps)].tool_input
    IN  [intermediate_steps |->
            Append(st.intermediate_steps,
                   AgentAction("web_search_result", tool_input, WebResult(outcome)))]

-----------------------------------------------------------------------------
(* graph_functions.py: snowflake_search *)

RECURSIVE FormatVisualizations(_, _)
\* Lines 509-512, visualizations i..len
FormatVisualizations(vizs, i) ==
    IF i > Len(vizs) THEN ""
    ELSE "![" \o vizs[i].title \o "](" \o vizs[i].url \o ")\n\n"
         \o "*" \o vizs[i].title \o " - " \o Join(", ", vizs[i].columns) \o "*\n\n"
         \o FormatVisualizations(vizs, i + 1)

\* Lines 495-512: markdown_result
SnowflakeMarkdown(result) ==
    "## Financial Data Analysis\n\n" \o result.summary \o "\n\n"
    \o (IF result.visualizations # <<>>
        THEN "\n## Visualizations\n\n" \o FormatVisualizations(result.visualizations, 1)
        ELSE "")

\* The log of the result Action: generate_snowflake_insights returned (it
\* catches its own failures and returns an error summary with no charts),
\* or an exception is raised inside the node's try block
SnowflakeResult(outcome) ==
    IF outcome.kind = "insights" THEN SnowflakeMarkdown(outcome)
    ELSE "Error searching Snowflake: " \o outcome.error

\* SnowflakeUpdate naming its result Action after the tool
SnowflakeUpdate_ToolName(st, outcome) ==
    LET tool_input == st.intermediate_steps[Len(st.intermediate_steps)].tool_input
    IN  [intermediate_steps |->
            Append(st.intermediate_steps,
                   AgentAction("snowflake", tool_input, SnowflakeResult(outcome)))]

\* Lines 523-539
SnowflakeUpdate(st, outcome) ==
    LET tool_input == st.intermediate_steps[Len(st.intermediate_steps)].tool_input
    IN  [intermediate_steps |->
            Append(st.intermediate_steps,
                   AgentAction("snowflake_search_result", tool_input, SnowflakeResult(outcome)))]

-----------------------------------------------------------------------------
(* graph_functions.py: generate_final_answer *)

\* No "\n" in s[a..b]: what "." of a regular expression can match
NoNewline(s, a, b) == \A k \in a..b : Char(s, k) # "\n"

\* The position after the longest run of [^\s\)] characters starting at k
UrlRunEnd(s, k) ==
    CHOOSE e \in k..(Len(s) + 1) :
        /\ \A x \in k..(e - 1) : Char(s, x) \notin Whitespace /\ Char(s, x) # ")"
        /\ (e = Len(s) + 1 \/ Char(s, e) \in Whitespace \/ Char(s, e) = ")")

\* The length of the scheme "http://" or "https://" at position k, 0 if neither
SchemeLen(s, k) ==
    IF StartsWithAt(s, k, "http://") THEN Len("http://")
    ELSE IF StartsWithAt(s, k, "https://") THEN Len("https://")
    ELSE 0

\* j is a place where \]\((https?://[^\s\)]+)\) matches, for a title begun at i + 1
LinkTailAt(s, i, j) ==
    /\ StartsWithAt(s, j, "](")
    /\ SchemeLen(s, j + 2) > 0
    /\ NoNewline(s, i + 1, j - 1)
    /\ UrlRunEnd(s, j + 2 + SchemeLen(s, j + 2)) > j + 2 + SchemeLen(s, j + 2)
    /\ UrlRunEnd(s, j + 2 + SchemeLen(s, j + 2)) <= Len(s)
    /\ Char(s, UrlRunEnd(s, j + 2 + SchemeLen(s, j + 2))) = ")"

\* re.match of \[(.*?)\]\((https?://[^\s\)]+)\) at position i: the lazy title
\* ends at the first "]" from which the rest matches
LinkMatchAt(s, i) ==
    LET tails == IF Char(s, i) = "["
                 THEN {j \in (i + 1)..Len(s) : LinkTailAt(s, i, j)}
                 ELSE {}
    IN  IF tails # {}
        THEN LET j == Min(tails)
                 e == UrlRunEnd(s, j + 2 + SchemeLen(s, j + 2))
             IN  [ok |-> TRUE, title |-> SubSeq(s, i + 1, j - 1),
                  url |-> SubSeq(s, j + 2, e - 1), next |-> e + 1]
        ELSE [ok |-> FALSE]

RECURSIVE FindLinks(_, _)
\* re.findall(r'\[(.*?)\]\((https?://[^\s\)]+)\)', s), scanning from position i,
\* as the dicts of lines 292-295: the leftmost match, then on from its end
FindLinks(s, i) ==
    LET starts == {p \in i..Len(s) : Char(s, p) = "[" /\ LinkMatchAt(s, p).ok}
    IN  IF starts # {}
        THEN LET m == LinkMatchAt(s, Min(starts))
             IN  <<[title |-> m.title, url |-> m.url]>> \o FindLinks(s, m.next)
        ELSE <<>>

\* \]\((.*?)\)\n\n\*(.*?)\* matches with "]" at j, ")" at k and the closing "*" at m
VizTailAt(s, i, j, k, m) ==
    /\ Char(s, m) = "*"
    /\ StartsWithAt(s, k, ")\n\n*")
    /\ StartsWithAt(s, j, "](")
    /\ NoNewline(s, i + 2, j - 1)
    /\ NoNewline(s, j + 2, k - 1)
    /\ NoNewline(s, k + 4, m - 1)

\* re.match of !\[(.*?)\]\((.*?)\)\n\n\*(.*?)\* at position i: each lazy group
\* takes the shortest text for which the rest still matches
VizMatchAt(s, i) ==
    LET titles == IF StartsWithAt(s, i, "![")
                  THEN {j \in (i + 2)..Len(s) :
                          /\ StartsWithAt(s, j, "](")
                          /\ \E k \in (j + 2)..Len(s) :
                                /\ StartsWithAt(s, k, ")\n\n*")
                                /\ \E m \in (k + 4)..Len(s) : VizTailAt(s, i, j, k, m)}
                  ELSE {}
    IN  IF titles # {}
        THEN LET j == Min(titles)
                 k == Min({k \in (j + 2)..Len(s) :
                            /\ StartsWithAt(s, k, ")\n\n*")
                            /\ \E m \in (k + 4)..Len(s) : VizTailAt(s, i, j, k, m)})
                 m == Min({m \in (k + 4)..Len(s) : VizTailAt(s, i, j, k, m)})
             IN  [ok |-> TRUE, title |-> SubSeq(s, i + 2, j - 1),
                  url |-> SubSeq(s, j + 2, k - 1),
                  caption |-> SubSeq(s, k + 4, m - 1), next |-> m + 1]
        ELSE [ok |-> FALSE]

RECURSIVE FindVizBlocks(_, _)
\* re.findall(r'!\[(.*?)\]\((.*?)\)\n\n\*(.*?)\*', s), scanning from position i,
\* as the dicts of lines 306-310: the leftmost match, then on from its end
FindVizBlocks(s, i) ==
    LET starts == {p \in i..Len(s) : StartsWithAt(s, p, "![") /\ VizMatchAt(s, p).ok}
    IN  IF starts # {}
        THEN LET m == VizMatchAt(s, Min(starts))
             IN  <<[title |-> m.title, url |-> m.url, caption |-> m.caption]>>
                 \o FindVizBlocks(s, m.next)
        ELSE <<>>

VizHeader == "## Visualizations"

\* s.split(sep)[0], for s containing sep
SplitFirst(s, sep) == SubSeq(s, 1, Find(s, sep) - 1)

\* s.split(sep)[1], for s containing sep
SplitSecond(s, sep) ==
    LET rest == SubSeq(s, Find(s, sep) + Len(sep), Len(s))
    IN  IF Contains(rest, sep) THEN SubSeq(rest, 1, Find(rest, sep) - 1) ELSE rest

RECURSIVE ScanSteps(_, _, _)
\* The loop of lines 282-311 from step i on, acc holding the five locals
ScanSteps(steps, i, acc) ==
    IF i > Len(steps) THEN acc
    ELSE LET step == steps[i]
         IN  CASE step.tool = "rag_search_result" ->
                    ScanSteps(steps, i + 1, [acc EXCEPT !.rag_result = step.log])
               [] step.tool = "web_search_result" ->
                    ScanSteps(steps, i + 1,
                              [acc EXCEPT !.web_result = step.log,
                                          !.web_links = @ \o FindLinks(step.log, 1)])
               [] step.tool = "snowflake_search_result" ->
                    IF Contains(step.log, VizHeader)
                    THEN ScanSteps(steps, i + 1,
                              [acc EXCEPT
                                 !.visualization_urls =
                                     @ \o FindVizBlocks(SplitSecond(step.log, VizHeader), 1),
                                 !.snowflake_result = SplitFirst(step.log, VizHeader)])
                    ELSE ScanSteps(steps, i + 1, [acc EXCEPT !.snowflake_result = step.log])
               [] OTHER -> ScanSteps(steps, i + 1, acc)

\* Lines 275-311
CollectResults(st) ==
    ScanSteps(st.intermediate_steps, 1,
              [rag_result |-> "", web_result |-> "", snowflake_result |-> "",
               visualization_urls |-> <<>>, web_links |-> <<>>])

RECURSIVE LinkBullets(_, _)
\* Lines 447-448
LinkBullets(web_links, i) ==
    IF i > Len(web_links) THEN ""
    ELSE "- [" \o web_links[i].title \o "](" \o web_links[i].url \o ")\n"
         \o LinkBullets(web_links, i + 1)

RECURSIVE VizBlocks(_, _)
\* Lines 453-455
VizBlocks(vizs, i) ==
    IF i > Len(vizs) THEN ""
    ELSE "![" \o vizs[i].title \o "](" \o vizs[i].url \o ")\n\n"
         \o "*" \o vizs[i].caption \o "*\n\n"
         \o VizBlocks(vizs, i + 1)

\* FinalResponse with the Visualizations section put before the Sources section
FinalResponse_VizFirst(st, content) ==
    LET found == CollectResults(st)
    IN  content
        \o (IF found.visualization_urls # <<>>
            THEN "\n\n## Visualizations\n\n" \o VizBlocks(found.visualization_urls, 1)
            ELSE "")
        \o (IF found.web_links # <<>>
            THEN "\n\n## Sources and References\n\n" \o LinkBullets(found.web_links, 1)
            ELSE "")

\* Lines 441-455: content is response.content of the LLM
FinalResponse(st, content) ==
    LET found == CollectResults(st)
    IN  content
        \o (IF found.web_links # <<>>
            THEN "\n\n## Sources and References\n\n" \o LinkBullets(found.web_links, 1)
            ELSE "")
        \o (IF found.visualization_urls # <<>>
            THEN "\n\n## Visualizations\n\n" \o VizBlocks(found.visualization_urls, 1)
            ELSE "")

\* FinalUpdate returning the history without the final_answer_result Action
FinalUpdate_NoAppend(st, content) ==
    LET final_response == FinalResponse(st, content)
    IN  [output |-> final_response,
         intermediate_steps |-> st.intermediate_steps]

\* FinalUpdate with the model's raw output for output
FinalUpdate_OutputRaw(st, content) ==
    LET final_response == FinalResponse(st, content)
    IN  [output |-> content,
         intermediate_steps |->
            Append(st.intermediate_steps,
                   AgentAction("final_answer_result", [query |-> st.input], final_response))]

\* Lines 457-473: the update generate_final_answer returns
FinalUpdate(st, content) ==
    LET final_response == FinalResponse(st, content)
    IN  [output |-> final_response,
         intermediate_steps |->
            Append(st.intermediate_steps,
                   AgentAction("final_answer_result", [query |-> st.input], final_response))]

-----------------------------------------------------------------------------
(* research_graph.py: initialize_research_graph, run_research_graph *)

\* initialize_research_graph run without interleaving: the graph it returns
\* and the number of graphs compiled so far after it
InitializeResearchGraph(global, built) ==
    IF global = NoGraph
    THEN [graph |-> built + 1, built |-> built + 1]
    ELSE [graph |-> global, built |-> built]

\* Lines 66-73
InitialState(query, year_quarter_dict, mode) ==
    [input |-> query, chat_history |-> <<>>, intermediate_steps |-> <<>>,
     metadata_filters |-> year_quarter_dict, mode |-> mode]

FallbackMessage ==
    "No comprehensive results available. Please try again with a different query."

\* ExtractResult without the scan of the history of lines 90-97
ExtractResult_OutputOnly(result) ==
    IF "output" \in DOMAIN result THEN result.output ELSE FallbackMessage

\* Lines 84-100: what run_research_graph returns for the state the graph ended in
ExtractResult(result) ==
    IF "output" \in DOMAIN result THEN result.output
    ELSE IF \E i \in 1..Len(result.intermediate_steps) :
                result.intermediate_steps[i].tool = "final_answer_result"
    THEN result.intermediate_steps[
            CHOOSE i \in 1..Len(result.intermediate_steps) :
                /\ result.intermediate_steps[i].tool = "final_answer_result"
                /\ \A j \in 1..(i - 1) :
                      result.intermediate_steps[j].tool # "final_answer_result"].log
    ELSE FallbackMessage

-----------------------------------------------------------------------------
(* main.py: research_endpoint *)

valid_modes == <<"pinecone", "web_search", "snowflake", "combined">>

\* ValidationError without the any(...) test of line 116
ValidationError_NoAnyTest(req) ==
    IF \A i \in 1..Len(valid_modes) : valid_modes[i] # req.mode
    THEN "Invalid mode '" \o req.mode \o "'. Must be one of: " \o Join(", ", valid_modes)
    ELSE IF /\ req.mode \in {"pinecone", "snowflake", "combined"}
            /\ req.year_quarter_dict = <<>>
    THEN "For " \o req.mode \o " search, at least one year and quarter must be selected"
    ELSE ""

\* Lines 110-117: the error body the handler returns, or "" when the request passes
ValidationError(req) ==
    IF \A i \in 1..Len(valid_modes) : valid_modes[i] # req.mode
    THEN "Invalid mode '" \o req.mode \o "'. Must be one of: " \o Join(", ", valid_modes)
    ELSE IF /\ req.mode \in {"pinecone", "snowflake", "combined"}
            /\ (\/ req.year_quarter_dict = <<>>
                \/ \A i \in 1..Len(req.year_quarter_dict) :
                      DictValues(req.year_quarter_dict)[i] = <<>>)
    THEN "For " \o req.mode \o " search, at least one year and quarter must be selected"
    ELSE ""

\* Lines 141-145: the response for an exception that reached the handler
ServerError(message) ==
    [status |-> 500, detail |-> "Error running research workflow: " \o message]

\* Lines 130-134
ResultResponse(result, mode) ==
    [status |-> 200, body |-> [result |-> result, mode |-> mode]]

\* Lines 113 and 117
ErrorResponse(message) ==
    [status |-> 200, body |-> [error |-> message]]

-----------------------------------------------------------------------------
(* Inputs *)

MaxCallers == 3
Callers == 1..MaxCallers

\* Concurrent calls of run_research_graph, and the list objects they can hold:
\* a node builds its new history while the old one is still referenced
MaxRuns == 2
Runs == 1..MaxRuns
ListIds == 1..(2 * MaxRuns)
IdleRun == [pc |-> "idle"]
NoProbe == [phase |-> "none"]

Queries == {"revenue trend"}

\* The (year, quarter) metadata of the records in the index
Records == [year : {"2023", "2024", "2025"}, quarter : {"1", "2", "3"}]

YearQuarterDicts ==
    { <<>>,
      << <<"2024", <<>> >> >>,
      << <<"2024", <<"1">> >> >>,
      << <<"2023", <<>> >>, <<"2024", <<"1", "2">> >> >> }

RequestModes == {"pinecone", "web_search", "snowflake", "combined", "hybrid"}

Requests ==
    [query : Queries, year_quarter_dict : YearQuarterDicts, mode : RequestModes]

Errors == {"connection refused"}

\* What llm.invoke does for run_oracle: returns a content, or raises
OracleReplies ==
    {"pinecone", "web_search", "snowflake", " Snowflake\n", "pinecone.",
     "I suggest web search", "", "none of them"}
OracleLLMOutcomes ==
    [kind : {"content"}, content : OracleReplies] \cup [kind : {"raises"}, error : Errors]

\* What the vector-search backend does for rag_search
RagOutcomes ==
    [kind : {"init_raises", "search_raises"}, error : Errors]
    \cup [kind : {"returns"},
          text : {"Revenue grew 12%.",
                  "No relevant information found for the specified year and quarters.",
                  "Error occurred during search."}]

NewsItem ==
    [title |-> "GPU launch", link |-> "https://n.io/a", source |-> "Reuters",
     date |-> "1 day ago", snippet |-> "New GPU."]
TrendItem ==
    [title |-> "AI demand", link |-> "http://t.io/b", source |-> "website",
     date |-> "Recent", snippet |-> "Demand up."]

\* What WebSearchAgent.run does for web_search
WebOutcomes ==
    [kind : {"status_error", "raises"}, error : Errors]
    \cup [kind : {"success"}, news : {<<>>, <<NewsItem>>}, trends : {<<>>, <<TrendItem>>},
          insights : {"Outlook positive."}]

TimeSeriesChart(columns) ==
    [url |-> "https://s3.io/ts.png", type |-> "time_series",
     title |-> "Key Metrics Time Series", columns |-> columns]
CorrelationChart(columns) ==
    [url |-> "https://s3.io/corr.png", type |-> "correlation",
     title |-> "Metrics Correlation Analysis", columns |-> columns]

\* A data summary in which the model wrote a chart section of its own
\* (generate_data_summary returns the model's text as it is)
SummaryWithChartMarkdown ==
    "Close rose 5%.\n\n## Visualizations\n\n![Close](https://x.io/c.png)\n\n*Close by day*"

\* What generate_snowflake_insights does for snowflake_search
SnowflakeOutcomes ==
    [kind : {"raises"}, error : Errors]
    \cup [kind : {"insights"}, summary : {SummaryWithChartMarkdown},
          visualizations : {<<>>, <<TimeSeriesChart(<<"CLOSE">>)>>}]
    \cup [kind : {"insights"}, summary : {"Close rose 5%."},
          visualizations : { <<>>,
                             <<TimeSeriesChart(<<"CLOSE">>)>>,
                             <<TimeSeriesChart(<<"CLOSE", "OPEN">>),
                               CorrelationChart(<<"CLOSE", "OPEN">>)>> }]
    \cup {[kind |-> "insights", summary |-> "Error generating insights: " \o e,
           visualizations |-> <<>>] : e \in Errors}

\* What llm.invoke does for generate_final_answer
FinalLLMOutcomes ==
    [kind : {"content"}, content : {"Report."}] \cup [kind : {"raises"}, error : Errors]

-----------------------------------------------------------------------------
(* The process: startup, then one /research request through the graph *)

Init ==
    /\ pc = "startup"
    /\ request = NoRequest
    /\ state = NoState
    /\ response = NoResponse
    /\ exception = NoException
    /\ GLOBAL_GRAPH = NoGraph
    /\ graphs_built = 0
    /\ callers = [c \in Callers |-> [pc |-> "start", graph |-> NoGraph, returned |-> NoGraph]]
    /\ trace = <<>>
    /\ llm_calls = 0
    /\ adapter_runs = <<>>
    /\ keeps_undeclared \in BOOLEAN
    /\ runs = [r \in Runs |-> IdleRun]
    /\ lists = [id \in ListIds |-> <<>>]
    /\ probe = NoProbe

\* An exception leaves the node, graph.invoke (research_graph.py line 78) and
\* run_research_graph, which catch nothing, on its way to the handler
Raise(message) ==
    /\ exception' = [raised |-> TRUE, message |-> message]
    /\ pc' = "raised"
    /\ UNCHANGED response

\* A node returned `update`: the graph writes it and moves on along the edges
Advance(node, update) ==
    LET st == ApplyUpdate(state, update, keeps_undeclared)
    IN  IF NextNode(node, st) = "None"
        THEN Raise("KeyError: None") /\ UNCHANGED state
        ELSE /\ state' = st
             /\ pc' = NextNode(node, st)
             /\ UNCHANGED <<response, exception>>

\* main.py lines 12-22: lifespan startup
Lifespan ==
    /\ pc = "startup"
    /\ UNCHANGED <<runs, lists, probe>>
    /\ LET init == InitializeResearchGraph(GLOBAL_GRAPH, graphs_built)
       IN  /\ GLOBAL_GRAPH' = init.graph
           /\ graphs_built' = init.built
    /\ pc' = "serving"
    /\ UNCHANGED <<request, state, response, exception, callers, trace, llm_calls,
                   adapter_runs, keeps_undeclared>>

\* main.py lines 98-125 and research_graph.py lines 54-78, up to graph.invoke
ResearchEndpoint(req) ==
    /\ pc = "serving"
    /\ UNCHANGED <<runs, lists, probe>>
    /\ request' = req
    /\ IF ValidationError(req) # ""
       THEN /\ response' = ErrorResponse(ValidationError(req))
            /\ pc' = "responded"
            /\ UNCHANGED <<state, GLOBAL_GRAPH, graphs_built>>
       ELSE /\ state' = InitialState(req.query, req.year_quarter_dict, req.mode)
            /\ LET init == InitializeResearchGraph(GLOBAL_GRAPH, graphs_built)
               IN  /\ GLOBAL_GRAPH' = init.graph
                   /\ graphs_built' = init.built
            /\ pc' = "oracle"
            /\ UNCHANGED response
    /\ UNCHANGED <<exception, callers, trace, llm_calls, adapter_runs, keeps_undeclared>>

\* graph_functions.py lines 15-126, then the conditional edge
RunOracle ==
    /\ pc = "oracle"
    /\ UNCHANGED <<runs, lists, probe>>
    /\ trace' = Append(trace, "oracle")
    /\ UNCHANGED <<request, GLOBAL_GRAPH, graphs_built, callers, adapter_runs, keeps_undeclared>>
    /\ IF OracleBranch(state) = "unbound"
       THEN \* chosen_tool is read at line 104 without having been assigned
            /\ Raise("UnboundLocalError: chosen_tool")
            /\ UNCHANGED <<state, llm_calls>>
       ELSE IF ConsultsLLM(state)
       THEN /\ llm_calls' = llm_calls + 1
            /\ \E outcome \in OracleLLMOutcomes :
                 IF outcome.kind = "raises"
                 THEN Raise(outcome.error) /\ UNCHANGED state
                 ELSE \E pick \in (IF unused_tools(state) = {} THEN {""} ELSE unused_tools(state)) :
                        Advance("oracle",
                                OracleUpdate(state,
                                             Normalize(ChosenTool(state, outcome.content, pick))))
       ELSE /\ UNCHANGED llm_calls
            /\ Advance("oracle", OracleUpdate(state, Normalize(ChosenTool(state, "", ""))))

\* graph_functions.py lines 160-202
RagSearch ==
    /\ pc = "rag_search"
    /\ UNCHANGED <<runs, lists, probe>>
    /\ trace' = Append(trace, "rag_search")
    /\ UNCHANGED <<request, GLOBAL_GRAPH, graphs_built, callers, llm_calls, keeps_undeclared>>
    /\ \E outcome \in RagOutcomes :
         /\ adapter_runs' =
               Append(adapter_runs,
                      [node |-> "rag_search", outcome |-> outcome,
                       filter |-> IF outcome.kind = "returns"
                                  THEN FilterCriteria(
                                           state.intermediate_steps[Len(state.intermediate_steps)]
                                               .tool_input.metadata_filters)
                                  ELSE NoFilter])
         /\ IF outcome.kind = "init_raises"
            THEN \* AgenticResearchAssistant() at line 179 is outside the try block
                 Raise(outcome.error) /\ UNCHANGED state
            ELSE Advance("rag_search", RagUpdate(state, outcome))

\* graph_functions.py lines 204-265
WebSearch ==
    /\ pc = "web_search"
    /\ UNCHANGED <<runs, lists, probe>>
    /\ trace' = Append(trace, "web_search")
    /\ UNCHANGED <<request, GLOBAL_GRAPH, graphs_built, callers, llm_calls, keeps_undeclared>>
    /\ \E outcome \in WebOutcomes :
         /\ adapter_runs' = Append(adapter_runs, [node |-> "web_search", outcome |-> outcome])
         /\ Advance("web_search", WebUpdate(state, outcome))

\* graph_functions.py lines 475-539
SnowflakeSearch ==
    /\ pc = "snowflake_search"
    /\ UNCHANGED <<runs, lists, probe>>
    /\ trace' = Append(trace, "snowflake_search")
    /\ UNCHANGED <<request, GLOBAL_GRAPH, graphs_built, callers, llm_calls, keeps_undeclared>>
    /\ \E outcome \in SnowflakeOutcomes :
         /\ adapter_runs' = Append(adapter_runs, [node |-> "snowflake_search", outcome |-> outcome])
         /\ Advance("snowflake_search", SnowflakeUpdate(state, outcome))

\* graph_functions.py lines 267-473
GenerateFinalAnswer ==
    /\ pc = "final_answer"
    /\ UNCHANGED <<runs, lists, probe>>
    /\ trace' = Append(trace, "final_answer")
    /\ UNCHANGED <<request, GLOBAL_GRAPH, graphs_built, callers, llm_calls, adapter_runs,
                   keeps_undeclared>>
    /\ \E outcome \in FinalLLMOutcomes :
         IF outcome.kind = "raises"
         THEN Raise(outcome.error) /\ UNCHANGED state
         ELSE Advance("final_answer", FinalUpdate(state, outcome.content))

\* graph.invoke returned: research_graph.py lines 78-100, main.py lines 127-134
ReturnResult ==
    /\ pc = "END"
    /\ UNCHANGED <<runs, lists, probe>>
    /\ response' = ResultResponse(ExtractResult(state), request.mode)
    /\ pc' = "responded"
    /\ UNCHANGED <<request, state, exception, GLOBAL_GRAPH, graphs_built, callers, trace,
                   llm_calls, adapter_runs, keeps_undeclared>>

\* HandleException answering with the fallback message instead of raising
HandleException_Swallows ==
    /\ pc = "raised"
    /\ UNCHANGED <<runs, lists, probe>>
    /\ response' = ResultResponse(FallbackMessage, request.mode)
    /\ pc' = "responded"
    /\ UNCHANGED <<request, state, exception, GLOBAL_GRAPH, graphs_built, callers, trace,
                   llm_calls, adapter_runs, keeps_undeclared>>

\* main.py lines 135-145: both except clauses, the second answers HTTP 500
HandleException ==
    /\ pc = "raised"
    /\ UNCHANGED <<runs, lists, probe>>
    /\ response' = ServerError(exception.message)
    /\ pc' = "responded"
    /\ UNCHANGED <<request, state, exception, GLOBAL_GRAPH, graphs_built, callers, trace,
                   llm_calls, adapter_runs, keeps_undeclared>>

Next ==
    \/ Lifespan
    \/ \E req \in Requests : ResearchEndpoint(req)
    \/ RunOracle
    \/ RagSearch
    \/ WebSearch
    \/ SnowflakeSearch
    \/ GenerateFinalAnswer
    \/ ReturnResult
    \/ HandleException

Spec == Init /\ [][Next]_vars

\* The positions at which a received request is being worked on
RunPositions ==
    {"oracle", "rag_search", "web_search", "snowflake_search", "final_answer", "END", "raised"}
Positions == RunPositions \cup {"startup", "serving", "responded"}

\* A step of the run: every action enabled at a run position leaves it
RunStep == pc \in RunPositions /\ pc' \in Positions \ {pc}

\* Each node runs to completion and the driver then runs the next one
\* (research_graph.py line 78 blocks until the graph has ended): a request
\* that is being worked on is not left where it is
FairSpec == Spec /\ WF_pc(RunStep)

-----------------------------------------------------------------------------
(* initialize_research_graph called from several threads at once: the      *)
(* steps of research_graph.py lines 15-52, one caller at a time            *)

\* Line 15: if _GLOBAL_GRAPH is None
CallerCheck(c) ==
    /\ callers[c].pc = "start"
    /\ UNCHANGED <<runs, lists, probe>>
    /\ callers' = [callers EXCEPT ![c].pc = IF GLOBAL_GRAPH = NoGraph THEN "build" ELSE "return"]
    /\ UNCHANGED <<pc, request, state, response, exception, GLOBAL_GRAPH, graphs_built, trace, llm_calls,
                   adapter_runs, keeps_undeclared>>

\* Lines 18-49: the graph is wired and graph.compile() makes a new instance
CallerCompile(c) ==
    /\ callers[c].pc = "build"
    /\ UNCHANGED <<runs, lists, probe>>
    /\ graphs_built' = graphs_built + 1
    /\ callers' = [callers EXCEPT ![c].pc = "store", ![c].graph = graphs_built + 1]
    /\ UNCHANGED <<pc, request, state, response, exception, GLOBAL_GRAPH, trace, llm_calls,
                   adapter_runs, keeps_undeclared>>

\* Line 49: _GLOBAL_GRAPH = <the compiled graph>
CallerStore(c) ==
    /\ callers[c].pc = "store"
    /\ UNCHANGED <<runs, lists, probe>>
    /\ GLOBAL_GRAPH' = callers[c].graph
    /\ callers' = [callers EXCEPT ![c].pc = "return"]
    /\ UNCHANGED <<pc, request, state, response, exception, graphs_built, trace, llm_calls,
                   adapter_runs, keeps_undeclared>>

\* Line 52: return _GLOBAL_GRAPH
CallerReturn(c) ==
    /\ callers[c].pc = "return"
    /\ UNCHANGED <<runs, lists, probe>>
    /\ callers' = [callers EXCEPT ![c].pc = "done", ![c].returned = GLOBAL_GRAPH]
    /\ UNCHANGED <<pc, request, state, response, exception, GLOBAL_GRAPH, graphs_built, trace, llm_calls,
                   adapter_runs, keeps_undeclared>>

InitNext ==
    \/ \E c \in Callers : CallerCheck(c)
    \/ \E c \in Callers : CallerCompile(c)
    \/ \E c \in Callers : CallerStore(c)
    \/ \E c \in Callers : CallerReturn(c)

InitSpec == Init /\ [][InitNext]_vars

-----------------------------------------------------------------------------
(* run_research_graph called for several requests at once on the compiled  *)
(* graph: each call steps through the nodes on its own run state.  A       *)
(* history is a Python list, an object with an identity, so that two runs  *)
(* holding the same list would see each other's Actions.                   *)

ConcQueries == {"revenue trend", "gpu demand"}
ConcModes == {"pinecone", "web_search", "snowflake"}
ConcFilters == << <<"2024", <<"1">> >> >>
\* What the backends answer in these runs
ConcReplies == {"pinecone"}
ConcRagOutcome == [kind |-> "returns", text |-> "Revenue grew 12%."]
ConcWebOutcome ==
    [kind |-> "success", news |-> <<NewsItem>>, trends |-> <<>>, insights |-> "Outlook positive."]
ConcSnowflakeOutcome ==
    [kind |-> "insights", summary |-> "Close rose 5%.",
     visualizations |-> <<TimeSeriesChart(<<"CLOSE">>)>>]
ConcContent == "Report."

\* NewList handing out one and the same list object every time
NewList_Shared(r, made) == Min(ListIds)

\* A list display or a list concatenation makes a new list object
\* (research_graph.py line 70, graph_functions.py lines 126, 202, 259, 472, 539):
\* one that nothing references yet.  The objects are named after the run that
\* makes them, two names per run taken in turn, the list a run held before
\* being released when the run's state is replaced; made is the number of
\* lists the run has made so far.
NewList(r, made) == 2 * (r - 1) + 1 + (made % 2)

\* The run state a node of run r receives: the history is what its list holds
RunState(r) == [runs[r].state EXCEPT !.intermediate_steps = lists[@]]

\* research_graph.py lines 66-78: the state of a new run, handed to graph.invoke
RunStart(r, query, mode) ==
    /\ runs[r].pc = "idle"
    /\ LET id == NewList(r, 0)
       IN  /\ lists' = [lists EXCEPT ![id] = <<>>]
           /\ runs' = [runs EXCEPT ![r] =
                         [pc |-> "oracle",
                          state |-> [InitialState(query, ConcFilters, mode)
                                        EXCEPT !.intermediate_steps = id],
                          trace |-> <<>>]]
    /\ UNCHANGED <<pc, request, state, response, exception, GLOBAL_GRAPH, graphs_built,
                   callers, trace, llm_calls, adapter_runs, keeps_undeclared, probe>>

\* A node of run r returned `update`: its history is a new list object, the
\* list of the state it received is no longer referenced
ConcAdvance(r, node, update) ==
    LET st == ApplyUpdate(RunState(r), update, keeps_undeclared)
        id == NewList(r, Len(runs[r].trace) + 1)
        old == runs[r].state.intermediate_steps
    IN  /\ lists' = [lists EXCEPT ![old] = <<>>, ![id] = st.intermediate_steps]
        /\ runs' = [runs EXCEPT ![r] =
                      [pc |-> NextNode(node, st),
                       state |-> [st EXCEPT !.intermediate_steps = id],
                       trace |-> Append(runs[r].trace, node)]]
        /\ UNCHANGED <<pc, request, state, response, exception, GLOBAL_GRAPH, graphs_built,
                       callers, trace, llm_calls, adapter_runs, keeps_undeclared, probe>>

ConcOracle(r) ==
    /\ runs[r].pc = "oracle"
    /\ \E reply \in ConcReplies :
         \E pick \in (IF unused_tools(RunState(r)) = {} THEN {""} ELSE unused_tools(RunState(r))) :
            ConcAdvance(r, "oracle",
                        OracleUpdate(RunState(r), Normalize(ChosenTool(RunState(r), reply, pick))))

ConcRagSearch(r) ==
    /\ runs[r].pc = "rag_search"
    /\ ConcAdvance(r, "rag_search", RagUpdate(RunState(r), ConcRagOutcome))

ConcWebSearch(r) ==
    /\ runs[r].pc = "web_search"
    /\ ConcAdvance(r, "web_search", WebUpdate(RunState(r), ConcWebOutcome))

ConcSnowflakeSearch(r) ==
    /\ runs[r].pc = "snowflake_search"
    /\ ConcAdvance(r, "snowflake_search", SnowflakeUpdate(RunState(r), ConcSnowflakeOutcome))

ConcFinalAnswer(r) ==
    /\ runs[r].pc = "final_answer"
    /\ ConcAdvance(r, "final_answer", FinalUpdate(RunState(r), ConcContent))

ConcInit ==
    /\ pc = "serving"
    /\ request = NoRequest
    /\ state = NoState
    /\ response = NoResponse
    /\ exception = NoException
    /\ GLOBAL_GRAPH = 1
    /\ graphs_built = 1
    /\ callers = [c \in Callers |-> [pc |-> "start", graph |-> NoGraph, returned |-> NoGraph]]
    /\ trace = <<>>
    /\ llm_calls = 0
    /\ adapter_runs = <<>>
    /\ keeps_undeclared \in BOOLEAN
    /\ runs = [r \in Runs |-> IdleRun]
    /\ lists = [id \in ListIds |-> <<>>]
    /\ probe = NoProbe

ConcNext ==
    \/ \E r \in Runs : \E query \in ConcQueries : \E mode \in ConcModes : RunStart(r, query, mode)
    \/ \E r \in Runs : ConcOracle(r)
    \/ \E r \in Runs : ConcRagSearch(r)
    \/ \E r \in Runs : ConcWebSearch(r)
    \/ \E r \in Runs : ConcSnowflakeSearch(r)
    \/ \E r \in Runs : ConcFinalAnswer(r)

ConcSpec == ConcInit /\ [][ConcNext]_vars

-----------------------------------------------------------------------------
(* router and run_oracle called on a given run state, whatever its history *)

ProbeTools ==
    {"pinecone", "web_search", "snowflake", "final_answer",
     "rag_search_result", "snowflake_search_result", "summarize"}
MaxProbeSteps == 2

ProbeAction(tool, query) ==
    AgentAction(tool, [query |-> query, metadata_filters |-> ConcFilters], "Selected " \o tool)

RECURSIVE ProbeHistories(_, _)
\* The histories of at most n Actions
ProbeHistories(n, query) ==
    IF n = 0 THEN {<<>>}
    ELSE LET shorter == ProbeHistories(n - 1, query)
         IN  shorter \cup {Append(h, ProbeAction(t, query)) :
                              h \in {x \in shorter : Len(x) = n - 1}, t \in ProbeTools}

\* The run states the functions are called on
ProbeStates ==
    {[InitialState("revenue trend", ConcFilters, mode) EXCEPT !.intermediate_steps = h] :
        mode \in RequestModes, h \in ProbeHistories(MaxProbeSteps, "revenue trend")}

\* The run states router's answer is compared with: another query, no
\* filters, other modes, a history of at most one Action
ProbeAlternatives ==
    {[InitialState("gpu demand", <<>>, mode) EXCEPT !.intermediate_steps = h] :
        mode \in {"web_search", "combined"}, h \in ProbeHistories(1, "gpu demand")}

\* What the model answers: the replies of the runs, and replies naming two tools
ProbeReplies == OracleReplies \cup {"web or pinecone", "snow on the web"}

\* graph_functions.py lines 128-158 on probe.a and on another state
ProbeRoute ==
    /\ probe.phase = "given"
    /\ \E b \in ProbeAlternatives :
         probe' = [phase |-> "routed", a |-> probe.a, b |-> b,
                   node_a |-> router(probe.a), node_b |-> router(b)]
    /\ UNCHANGED <<pc, request, state, response, exception, GLOBAL_GRAPH, graphs_built,
                   callers, trace, llm_calls, adapter_runs, keeps_undeclared, runs, lists>>

\* graph_functions.py lines 15-126 on probe.a, for a reply of the model
ProbeOracle ==
    /\ probe.phase = "given"
    /\ IF OracleBranch(probe.a) = "unbound"
       THEN probe' = [phase |-> "decided", a |-> probe.a, reply |-> "", pick |-> "",
                      raised |-> TRUE]
       ELSE \E reply \in (IF ConsultsLLM(probe.a) THEN ProbeReplies ELSE {""}) :
            \E pick \in (IF OracleBranch(probe.a) = "combined_next"
                          THEN unused_tools(probe.a) ELSE {""}) :
               probe' = [phase |-> "decided", a |-> probe.a, reply |-> reply, pick |-> pick,
                         raised |-> FALSE,
                         update |-> OracleUpdate(probe.a,
                                                 Normalize(ChosenTool(probe.a, reply, pick)))]
    /\ UNCHANGED <<pc, request, state, response, exception, GLOBAL_GRAPH, graphs_built,
                   callers, trace, llm_calls, adapter_runs, keeps_undeclared, runs, lists>>

ProbeInit ==
    /\ pc = "serving"
    /\ request = NoRequest
    /\ state = NoState
    /\ response = NoResponse
    /\ exception = NoException
    /\ GLOBAL_GRAPH = 1
    /\ graphs_built = 1
    /\ callers = [c \in Callers |-> [pc |-> "start", graph |-> NoGraph, returned |-> NoGraph]]
    /\ trace = <<>>
    /\ llm_calls = 0
    /\ adapter_runs = <<>>
    /\ keeps_undeclared = FALSE
    /\ runs = [r \in Runs |-> IdleRun]
    /\ lists = [id \in ListIds |-> <<>>]
    /\ probe \in [phase : {"given"}, a : ProbeStates]

ProbeNext == ProbeRoute \/ ProbeOracle

ProbeSpec == ProbeInit /\ [][ProbeNext]_vars

-----------------------------------------------------------------------------
(* run_research_graph called directly, without the /research handler *)

\* The modes a caller of run_research_graph can pass: any string
DirectModes == RequestModes \cup {"Combined"}

DirectInit ==
    /\ pc = "direct"
    /\ request = NoRequest
    /\ state = NoState
    /\ response = NoResponse
    /\ exception = NoException
    /\ GLOBAL_GRAPH = NoGraph
    /\ graphs_built = 0
    /\ callers = [c \in Callers |-> [pc |-> "start", graph |-> NoGraph, returned |-> NoGraph]]
    /\ trace = <<>>
    /\ llm_calls = 0
    /\ adapter_runs = <<>>
    /\ keeps_undeclared \in BOOLEAN
    /\ runs = [r \in Runs |-> IdleRun]
    /\ lists = [id \in ListIds |-> <<>>]
    /\ probe = NoProbe

\* research_graph.py lines 54-78: the state is built from the arguments as
\* they are and handed to the graph
RunResearchGraph(query, year_quarter_dict, mode) ==
    /\ pc = "direct"
    /\ UNCHANGED <<runs, lists, probe>>
    /\ request' = [query |-> query, year_quarter_dict |-> year_quarter_dict, mode |-> mode]
    /\ state' = InitialState(query, year_quarter_dict, mode)
    /\ LET init == InitializeResearchGraph(GLOBAL_GRAPH, graphs_built)
       IN  /\ GLOBAL_GRAPH' = init.graph
           /\ graphs_built' = init.built
    /\ pc' = "oracle"
    /\ UNCHANGED <<response, exception, callers, trace, llm_calls, adapter_runs,
                   keeps_undeclared>>

\* research_graph.py lines 78-100: graph.invoke returned, the text is returned
RunReturns ==
    /\ pc = "END"
    /\ UNCHANGED <<runs, lists, probe>>
    /\ response' = [status |-> 0, returned |-> ExtractResult(state)]
    /\ pc' = "returned"
    /\ UNCHANGED <<request, state, exception, GLOBAL_GRAPH, graphs_built, callers, trace,
                   llm_calls, adapter_runs, keeps_undeclared>>

DirectNext ==
    \/ \E query \in Queries, year_quarter_dict \in YearQuarterDicts, mode \in DirectModes :
          RunResearchGraph(query, year_quarter_dict, mode)
    \/ RunOracle
    \/ RagSearch
    \/ WebSearch
    \/ SnowflakeSearch
    \/ GenerateFinalAnswer
    \/ RunReturns

DirectSpec == DirectInit /\ [][DirectNext]_vars

-----------------------------------------------------------------------------
(* Properties *)

RunStarted == "mode" \in DOMAIN state
Steps == state.intermediate_steps
LastStep == Steps[Len(Steps)]
Combined == RunStarted /\ state.mode = "combined"
SingleMode == RunStarted /\ state.mode \in {"pinecone", "web_search", "snowflake"}

\* The positions of the Actions with tool t in the history
StepsWith(t) == {i \in 1..Len(Steps) : Steps[i].tool = t}
\* How many times node n has executed
NodeRuns(n) == Cardinality({i \in 1..Len(trace) : trace[i] = n})
OracleDecisions == NodeRuns("oracle")
SelectionNames == all_tools \cup {"final_answer"}
ResultNames == {"rag_search_result", "web_search_result", "snowflake_search_result"}
IsSelection(step) == step.tool \in SelectionNames
Selected == SelectSeq(Steps, IsSelection)
AllThreeSelected == \A t \in all_tools : StepsWith(t) # {}

\* C1: in a combined-mode run, whatever the model answers, no real tool
\* (pinecone, web_search, snowflake) is recorded more than once as a
\* selection Action.
C1_NoToolSelectedTwice ==
    Combined => \A t \in all_tools : Cardinality(StepsWith(t)) <= 1

\* The oracle is about to decide with all three tools selected and answered
C1_Witness ==
    /\ Combined /\ pc = "oracle"
    /\ \A t \in all_tools : Cardinality(StepsWith(t)) = 1
    /\ Len(Steps) = 2 * Cardinality(all_tools)

\* C2: in combined mode the oracle selects final_answer only when all three
\* real tools have been selected before it; a malformed, empty or out-of-menu
\* reply, the first one included, never ends the run early.
C2_FinalAnswerOnlyAfterAllTools ==
    Combined =>
        \A i \in StepsWith("final_answer") :
            \A t \in all_tools : \E j \in StepsWith(t) : j < i

\* C3: every combined-mode run in which the model and the adapters return
\* eventually appends a final_answer_result Action, and no combined-mode run
\* makes more than 4 oracle decisions.
C3_CombinedRunTerminates ==
    /\ [](Combined => OracleDecisions <= 4)
    /\ (Combined ~> (\/ exception.raised
                     \/ (Combined /\ Steps # <<>> /\ LastStep.tool = "final_answer_result")))

\* A combined-mode run that ended after its fourth oracle decision
C3_Witness ==
    /\ Combined /\ pc = "END"
    /\ OracleDecisions = 4
    /\ LastStep.tool = "final_answer_result"

\* C4: in a single-tool mode the model is never consulted by the oracle, the
\* first decision selects the tool of the mode and the second final_answer,
\* no other adapter than the mode's runs and it runs at most once; a run
\* that reaches END has made exactly two decisions and run its adapter
\* exactly once.
C4_SingleModeTwoDecisions ==
    SingleMode =>
        /\ llm_calls = 0
        /\ OracleDecisions <= 2
        /\ Len(Selected) <= 2
        /\ (Len(Selected) >= 1 => Selected[1].tool = state.mode)
        /\ (Len(Selected) >= 2 => Selected[2].tool = "final_answer")
        /\ Len(adapter_runs) <= 1
        /\ \A i \in 1..Len(adapter_runs) :
              adapter_runs[i].node = DictGet(tool_to_node, state.mode)
        /\ (pc = "END" =>
              /\ OracleDecisions = 2
              /\ Len(Selected) = 2
              /\ Len(adapter_runs) = 1)

\* A snowflake-mode run that reached END
C4_Witness ==
    /\ SingleMode /\ state.mode = "snowflake" /\ pc = "END"
    /\ trace = <<"oracle", "snowflake_search", "oracle", "final_answer">>

\* C5 as stated: a combined-mode run that selected all three tools ends with
\* a history of exactly 7 Actions (3 selections, 3 results, 1 final).
C5_SevenActions ==
    (Combined /\ pc = "END" /\ AllThreeSelected) => Len(Steps) = 7

\* C5, amended: a combined-mode run that selected all three tools ends with
\* a history of exactly 8 Actions: 4 selection Actions (each real tool once,
\* then final_answer), 3 result Actions and 1 final_answer_result Action.
C5_EightActions ==
    (Combined /\ pc = "END" /\ AllThreeSelected) =>
        /\ Len(Steps) = 8
        /\ Len(Selected) = 4
        /\ \A t \in SelectionNames : Cardinality(StepsWith(t)) = 1
        /\ StepsWith("final_answer") = {Len(Steps) - 1}
        /\ \A t \in ResultNames : Cardinality(StepsWith(t)) = 1
        /\ StepsWith("final_answer_result") = {Len(Steps)}

\* A combined-mode run that selected all three tools and reached END
C5_Witness ==
    /\ Combined /\ pc = "END" /\ AllThreeSelected
    /\ Len(adapter_runs) = Cardinality(all_tools)

\* C6: every adapter node fails soft: whatever its backend does, the
\* construction of the backend client included, the node does not raise and
\* its <tool>_result Action is in the history.
C6_AdaptersFailSoft ==
    RunStarted =>
        /\ \A i \in 1..Len(adapter_runs) : StepsWith(adapter_runs[i].node \o "_result") # {}
        /\ (exception.raised => trace[Len(trace)] \notin AdapterNodes)

\* C7: when the web-search adapter fails (WebSearchAgent.run reports status
\* "error", or an exception is raised in the node), the node appends a
\* web_search_result Action whose log begins with "Error" and hands over to
\* the oracle instead of raising; in web_search mode the run then reaches the
\* final_answer node.
C7_WebFailureIsSoft ==
    RunStarted =>
        \A i \in 1..Len(adapter_runs) :
            (/\ adapter_runs[i].node = "web_search"
             /\ adapter_runs[i].outcome.kind \in {"status_error", "raises"})
            => /\ \E k \in StepsWith("web_search_result") : StartsWith(Steps[k].log, "Error")
               /\ ~(exception.raised /\ trace[Len(trace)] = "web_search")
               /\ (state.mode = "web_search" /\ pc \in {"END", "raised", "responded"}
                     => NodeRuns("final_answer") = 1)

\* A web_search-mode run whose adapter failed and that reached END
C7_Witness ==
    /\ RunStarted /\ state.mode = "web_search" /\ pc = "END"
    /\ Len(adapter_runs) = 1
    /\ adapter_runs[1].outcome.kind \in {"status_error", "raises"}
    /\ StartsWith(Steps[2].log, "Error")

\* C8: a request whose mode is not one of pinecone, web_search, snowflake,
\* combined, or whose mode is pinecone, snowflake or combined while
\* year_quarter_dict is empty or maps every year to an empty list, is answered
\* with an error body before the loop starts: no run state, no node
\* execution, no Action.
C8_InvalidRequestRejected ==
    ("mode" \in DOMAIN request
     /\ (\/ request.mode \notin {"pinecone", "web_search", "snowflake", "combined"}
         \/ /\ request.mode \in {"pinecone", "snowflake", "combined"}
            /\ \A i \in 1..Len(request.year_quarter_dict) :
                  request.year_quarter_dict[i][2] = <<>>))
    => /\ pc = "responded"
       /\ "body" \in DOMAIN response /\ "error" \in DOMAIN response.body
       /\ state = NoState
       /\ trace = <<>> /\ adapter_runs = <<>> /\ llm_calls = 0

\* A combined request whose only year has no quarter was rejected
C8_Witness ==
    /\ "mode" \in DOMAIN request
    /\ request.mode = "combined"
    /\ request.year_quarter_dict = << <<"2024", <<>> >> >>
    /\ pc = "responded"
    /\ response.status = 200 /\ "error" \in DOMAIN response.body

\* C9: once a node has raised, the request is answered with HTTP 500 carrying
\* the exception's message, never with a result.
C9_ExceptionIsServerError ==
    exception.raised =>
        \/ pc = "raised" /\ response = NoResponse
        \/ /\ pc = "responded"
           /\ response.status = 500
           /\ response.detail = "Error running research workflow: " \o exception.message
           /\ "body" \notin DOMAIN response

\* The rag_search node raised and the request was answered
C9_Witness ==
    /\ exception.raised /\ pc = "responded"
    /\ trace[Len(trace)] = "rag_search"
    /\ response.status = 500

\* C10: for every interleaving of concurrent calls of
\* initialize_research_graph the graph is compiled at most once and every
\* caller receives the same instance.
C10_GraphBuiltOnce ==
    /\ graphs_built <= 1
    /\ \A c, d \in Callers :
          (callers[c].pc = "done" /\ callers[d].pc = "done")
              => callers[c].returned = callers[d].returned

\* C11: two runs executing concurrently on the compiled graph share no
\* mutable run state: the histories of two runs are never the same list
\* object, a run starts from an empty history, and at every point its history
\* holds exactly one Action per node it has executed itself, each with the
\* run's own input as tool_input query.
Started(r) == runs[r].pc # "idle"
History(r) == lists[runs[r].state.intermediate_steps]
C11_RunsShareNoState ==
    \A r \in Runs :
        Started(r) =>
            /\ Len(History(r)) = Len(runs[r].trace)
            /\ \A i \in 1..Len(History(r)) :
                  History(r)[i].tool_input.query = runs[r].state.input
            /\ \A q \in Runs \ {r} :
                  Started(q) =>
                      runs[q].state.intermediate_steps # runs[r].state.intermediate_steps

\* Two runs with different inputs, both in the middle of the loop
C11_Witness ==
    /\ \A r \in Runs : Started(r) /\ runs[r].pc = "final_answer" /\ Len(History(r)) = 3
    /\ runs[1].state.input # runs[2].state.input
    /\ runs[1].state.mode = "pinecone" /\ runs[2].state.mode = "web_search"

\* C12: the final_answer node is terminal.  When it has run, the history
\* ends with the one final_answer_result Action of the run, the output of the
\* state (where the graph keeps that key) and the result handed to the
\* caller are that Action's log, and the run is over; before it has run there
\* is no final_answer_result Action and no output; a run ends only this way.
FinalRan ==
    /\ RunStarted /\ trace # <<>>
    /\ trace[Len(trace)] = "final_answer" /\ ~exception.raised
C12_FinalAnswerTerminal ==
    RunStarted =>
        /\ FinalRan =>
              /\ pc \in {"END", "responded"}
              /\ StepsWith("final_answer_result") = {Len(Steps)}
              /\ (keeps_undeclared => "output" \in DOMAIN state)
              /\ ("output" \in DOMAIN state => state.output = LastStep.log)
              /\ (pc = "responded" => response = ResultResponse(LastStep.log, state.mode))
        /\ ~FinalRan =>
              /\ StepsWith("final_answer_result") = {}
              /\ "output" \notin DOMAIN state
              /\ pc # "END"

\* A combined-mode run over after final_answer, its output holding a Sources section
C12_Witness ==
    /\ Combined /\ FinalRan /\ pc = "END"
    /\ "output" \in DOMAIN state
    /\ Contains(state.output, "## Sources and References")
    /\ state.output = LastStep.log

\* C13: the text of the finalizer is the model's raw output, followed by a
\* "## Sources and References" section exactly when at least one link was
\* extracted (one "- [title](url)" bullet per link, in extraction order),
\* followed by a "## Visualizations" section exactly when at least one chart
\* was extracted (an image line and an italic caption per chart); Sources
\* comes before Visualizations.
Extracted == CollectResults([intermediate_steps |-> SubSeq(Steps, 1, Len(Steps) - 1)])
Bullet(link) == "- [" \o link.title \o "](" \o link.url \o ")\n"
ChartBlock(viz) == "![" \o viz.title \o "](" \o viz.url \o ")\n\n*" \o viz.caption \o "*\n\n"
SourcesSection(links) ==
    IF links = <<>> THEN ""
    ELSE "\n\n## Sources and References\n\n"
         \o Join("", [i \in 1..Len(links) |-> Bullet(links[i])])
VisualizationsSection(charts) ==
    IF charts = <<>> THEN ""
    ELSE "\n\n## Visualizations\n\n"
         \o Join("", [i \in 1..Len(charts) |-> ChartBlock(charts[i])])
C13_FinalTextLayout ==
    FinalRan =>
        \E o \in {x \in FinalLLMOutcomes : x.kind = "content"} :
            LET text == LastStep.log
                tail == SubSeq(text, Len(o.content) + 1, Len(text))
            IN  /\ StartsWith(text, o.content)
                /\ tail = SourcesSection(Extracted.web_links)
                          \o VisualizationsSection(Extracted.visualization_urls)
                /\ Contains(tail, "## Sources and References") <=> Extracted.web_links # <<>>
                /\ Contains(tail, "## Visualizations") <=> Extracted.visualization_urls # <<>>
                /\ (Extracted.web_links # <<>> /\ Extracted.visualization_urls # <<>>)
                      => Find(tail, "## Sources and References") < Find(tail, "## Visualizations")

\* A finished run whose text carries two link bullets and two charts
C13_Witness ==
    /\ FinalRan /\ pc = "END"
    /\ Len(Extracted.web_links) >= 2
    /\ Len(Extracted.visualization_urls) = 2

\* C14: in a snowflake-mode run the finalizer appends a "## Visualizations"
\* section to the final text only if the snowflake adapter returned at least
\* one chart artifact in this run.
C14_VisualizationsOnlyWithCharts ==
    (RunStarted /\ state.mode = "snowflake" /\ FinalRan) =>
        \A o \in {x \in FinalLLMOutcomes : x.kind = "content"} :
            (/\ StartsWith(LastStep.log, o.content)
             /\ Contains(SubSeq(LastStep.log, Len(o.content) + 1, Len(LastStep.log)),
                         "## Visualizations"))
            => \E i \in 1..Len(adapter_runs) :
                  /\ adapter_runs[i].node = "snowflake_search"
                  /\ adapter_runs[i].outcome.kind = "insights"
                  /\ adapter_runs[i].outcome.visualizations # <<>>

\* C15: router is a function of the tool of the last Action only: two run
\* states whose last Actions have the same tool get the same answer, whatever
\* else differs between them, and a state with an empty history is routed to
\* final_answer.
Routed == probe.phase = "routed"
LastToolOf(st) ==
    IF st.intermediate_steps = <<>> THEN "(empty)"
    ELSE st.intermediate_steps[Len(st.intermediate_steps)].tool
C15_RouterReadsLastToolOnly ==
    Routed =>
        /\ LastToolOf(probe.a) = LastToolOf(probe.b) => probe.node_a = probe.node_b
        /\ probe.a.intermediate_steps = <<>> => probe.node_a = "final_answer"
        /\ probe.b.intermediate_steps = <<>> => probe.node_b = "final_answer"

\* Two states that differ in query, filters, mode and earlier history and
\* end with the same selection were routed to the same adapter
C15_Witness ==
    /\ Routed
    /\ Len(probe.a.intermediate_steps) = 2 /\ Len(probe.b.intermediate_steps) = 1
    /\ probe.a.intermediate_steps[1].tool = "web_search"
    /\ LastToolOf(probe.a) = "snowflake" /\ LastToolOf(probe.b) = "snowflake"
    /\ probe.a.mode # probe.b.mode /\ probe.a.input # probe.b.input
    /\ probe.node_a = "snowflake_search" /\ probe.node_b = "snowflake_search"

\* C16: router is total: for every run state, whatever the tool of its last
\* Action (a selection name, a <tool>_result name, or anything else), it
\* returns one of rag_search, web_search, snowflake_search, final_answer.
C16_RouterTotal ==
    Routed =>
        /\ probe.node_a \in AdapterNodes \cup {"final_answer"}
        /\ probe.node_b \in AdapterNodes \cup {"final_answer"}

\* C17: in combined mode with one or two real tools used, the oracle records
\* the model's choice whenever the normalized form of that choice (substring
\* match on pinecone / web / snow) names a tool that is still unused; it
\* falls back to an arbitrary unused tool only otherwise.
Decided == probe.phase = "decided"
Recorded == probe.update.intermediate_steps[Len(probe.update.intermediate_steps)].tool
C17_NormalizedChoiceHonoured ==
    (Decided /\ ~probe.raised /\ OracleBranch(probe.a) = "combined_next") =>
        LET normalized == Normalize(StrLower(StrStrip(probe.reply)))
        IN  normalized \in unused_tools(probe.a) => Recorded = normalized

\* C18: for every run state with a valid mode and every reply of the model,
\* the empty one included, run_oracle does not raise and records one of
\* pinecone, web_search, snowflake, final_answer, got from the choice it
\* arrived at by priority substring matching: "pinecone" in it gives pinecone,
\* otherwise "web" gives web_search, otherwise "snow" gives snowflake,
\* otherwise final_answer.
C18_OracleRecordsNormalizedTool ==
    (Decided /\ probe.a.mode \in {"pinecone", "web_search", "snowflake", "combined"}) =>
        /\ ~probe.raised
        /\ LET choice == ChosenTool(probe.a, probe.reply, probe.pick)
               has(sub) == Contains(choice, sub)
           IN  /\ Recorded \in {"pinecone", "web_search", "snowflake", "final_answer"}
               /\ has("pinecone") => Recorded = "pinecone"
               /\ (~has("pinecone") /\ has("web")) => Recorded = "web_search"
               /\ (~has("pinecone") /\ ~has("web") /\ has("snow")) => Recorded = "snowflake"
               /\ (~has("pinecone") /\ ~has("web") /\ ~has("snow")) => Recorded = "final_answer"
               /\ Len(probe.update.intermediate_steps) = Len(probe.a.intermediate_steps) + 1

\* A first combined-mode decision on a reply naming two tools
C18_Witness ==
    /\ Decided /\ probe.a.mode = "combined" /\ probe.a.intermediate_steps = <<>>
    /\ probe.reply = "web or pinecone"
    /\ ~probe.raised /\ Recorded = "pinecone"

\* C19: the history is append-only: every node execution that returns
\* (oracle, each adapter, final_answer) leaves a history equal to the one
\* before it with exactly one new Action at the end; a node that raises and
\* the steps after the run leave the run state as it is.
NodePositions == AdapterNodes \cup {"oracle", "final_answer"}
C19_HistoryAppendOnly ==
    [][/\ pc \in NodePositions =>
             \/ exception'.raised /\ state' = state
             \/ /\ ~exception'.raised
                /\ Len(state'.intermediate_steps) = Len(state.intermediate_steps) + 1
                /\ SubSeq(state'.intermediate_steps, 1, Len(state.intermediate_steps))
                      = state.intermediate_steps
       /\ pc \in {"END", "raised", "responded"} => state' = state]_vars

\* A combined-mode run ended with one Action per node execution
C19_Witness ==
    /\ Combined /\ pc = "END"
    /\ Len(trace) = 8 /\ Len(Steps) = Len(trace)
    /\ NodeRuns("rag_search") = 1

\* C20: the node executions of a run follow oracle (adapter oracle)*
\* final_answer END: the first node is oracle, an adapter runs only directly
\* after oracle and is directly followed by oracle, oracle is directly
\* followed by an adapter or final_answer, final_answer runs only directly
\* after oracle and nothing runs after it; a run that ends has run
\* final_answer exactly once.
C20_NodeOrder ==
    RunStarted =>
        /\ trace # <<>> => trace[1] = "oracle"
        /\ \A i \in 1..Len(trace) :
              /\ trace[i] \in AdapterNodes =>
                    /\ i > 1 /\ trace[i - 1] = "oracle"
                    /\ i < Len(trace) => trace[i + 1] = "oracle"
              /\ (trace[i] = "oracle" /\ i < Len(trace)) =>
                    trace[i + 1] \in AdapterNodes \cup {"final_answer"}
              /\ trace[i] = "final_answer" =>
                    /\ i > 1 /\ trace[i - 1] = "oracle"
                    /\ i = Len(trace)
        /\ pc = "oracle" => (trace = <<>> \/ trace[Len(trace)] \in AdapterNodes)
        /\ pc \in AdapterNodes \cup {"final_answer"} => trace[Len(trace)] = "oracle"
        /\ (trace # <<>> /\ trace[Len(trace)] \in AdapterNodes /\ ~exception.raised)
              => pc = "oracle"
        /\ pc = "END" => (trace[Len(trace)] = "final_answer" /\ NodeRuns("final_answer") = 1)
        /\ (pc = "responded" /\ ~exception.raised) => NodeRuns("final_answer") = 1

\* A combined-mode run through all three adapters, ended
C20_Witness ==
    /\ Combined /\ pc = "END"
    /\ trace = <<"oracle", "rag_search", "oracle", "web_search", "oracle",
                 "snowflake_search", "oracle", "final_answer">>

\* C21: every selection Action appended by the oracle has as tool_input the
\* run's input as query and the run's metadata filters, and every adapter
\* result Action carries the tool_input of the selection Action it answers,
\* the Action directly before it.
C21_ToolInputEchoed ==
    RunStarted =>
        \A i \in 1..Len(Steps) :
            /\ Steps[i].tool \in SelectionNames =>
                  Steps[i].tool_input =
                      [query |-> state.input, metadata_filters |-> state.metadata_filters]
            /\ Steps[i].tool \in ResultNames =>
                  /\ i > 1 /\ Steps[i - 1].tool \in all_tools
                  /\ Steps[i].tool_input = Steps[i - 1].tool_input

\* A combined-mode run with two years of filters and all three results in
C21_Witness ==
    /\ Combined /\ pc = "oracle"
    /\ Len(state.metadata_filters) = 2
    /\ \A t \in ResultNames : StepsWith(t) # {}

\* C22: a history the finalizer receives from a run holds at most one result
\* Action per tool family, so the text the finalizer keeps for a family comes
\* from the Action that is both the first and the last of the family: its log
\* (for the snowflake family the log up to the "## Visualizations" header), or
\* the empty text when the family has no result.
FirstOf(t) == Steps[Min(StepsWith(t))]
LastOf(t) == Steps[CHOOSE i \in StepsWith(t) : \A j \in StepsWith(t) : j <= i]
KeptText(t, log) ==
    IF t = "snowflake_search_result" /\ Contains(log, VizHeader)
    THEN SplitFirst(log, VizHeader)
    ELSE log
C22_OneResultPerFamily ==
    RunStarted =>
        /\ \A t \in ResultNames : Cardinality(StepsWith(t)) <= 1
        /\ pc = "final_answer" =>
              LET kept == [t \in ResultNames |->
                             CASE t = "rag_search_result" -> CollectResults(state).rag_result
                               [] t = "web_search_result" -> CollectResults(state).web_result
                               [] t = "snowflake_search_result" ->
                                     CollectResults(state).snowflake_result]
              IN  \A t \in ResultNames :
                      IF StepsWith(t) = {} THEN kept[t] = ""
                      ELSE /\ FirstOf(t) = LastOf(t)
                           /\ kept[t] = KeptText(t, FirstOf(t).log)
                           /\ kept[t] = KeptText(t, LastOf(t).log)

\* The finalizer is about to receive a combined-mode history with a result
\* of each family, the snowflake one carrying charts
C22_Witness ==
    /\ Combined /\ pc = "final_answer"
    /\ \A t \in ResultNames : Cardinality(StepsWith(t)) = 1
    /\ Contains(FirstOf("snowflake_search_result").log, VizHeader)

\* C23: chart metadata round-trips through the text sentinel: when the
\* snowflake adapter returned n >= 1 chart artifacts, the finalizer extracts
\* exactly those n charts from the "## Visualizations" section of the
\* snowflake result (same titles and URLs, same order), reattaches them in
\* the final text, and the snowflake text kept for the model no longer
\* contains that section.
SnowflakeRuns ==
    {i \in 1..Len(adapter_runs) :
        /\ adapter_runs[i].node = "snowflake_search"
        /\ adapter_runs[i].outcome.kind = "insights"
        /\ adapter_runs[i].outcome.visualizations # <<>>}
C23_ChartsRoundTrip ==
    FinalRan =>
        \A i \in SnowflakeRuns :
            LET charts == adapter_runs[i].outcome.visualizations
                got == Extracted.visualization_urls
            IN  /\ Len(got) = Len(charts)
                /\ \A k \in 1..Len(charts) :
                      /\ got[k].title = charts[k].title
                      /\ got[k].url = charts[k].url
                      /\ Contains(LastStep.log,
                                  "![" \o charts[k].title \o "](" \o charts[k].url \o ")")
                /\ ~Contains(Extracted.snowflake_result, VizHeader)

\* C24: extraction is idempotent on the finalizer's own output: the link
\* extraction and the image extraction of the finalizer, run again on the
\* sections it appended, find exactly the links and the images that were
\* appended and no other link or image.
AppendedText(content) == SubSeq(LastStep.log, Len(content) + 1, Len(LastStep.log))
ReExtractLinks(text) == FindLinks(text, 1)
ReExtractCharts(text) ==
    IF Contains(text, VizHeader) THEN FindVizBlocks(SplitSecond(text, VizHeader), 1) ELSE <<>>
C24_ExtractionIdempotent ==
    FinalRan =>
        \A o \in {x \in FinalLLMOutcomes : x.kind = "content"} :
            StartsWith(LastStep.log, o.content) =>
                /\ ReExtractCharts(AppendedText(o.content)) = Extracted.visualization_urls
                /\ ReExtractLinks(AppendedText(o.content)) = Extracted.web_links

\* C25: nothing is retried: a tool whose adapter returned an error result is
\* still counted as used by the oracle, its node has executed once and the
\* tool has been selected once in the run, and the finalizer keeps the error
\* text of its result Action like any other result.
ToolOfNode == [rag_search |-> "pinecone", web_search |-> "web_search",
               snowflake_search |-> "snowflake"]
ResultOfNode == [rag_search |-> "rag_search_result", web_search |-> "web_search_result",
                 snowflake_search |-> "snowflake_search_result"]
ErrorResult(run) ==
    CASE run.node = "rag_search" ->
            \/ run.outcome.kind = "search_raises"
            \/ run.outcome.kind = "returns" /\ run.outcome.text = "Error occurred during search."
      [] run.node = "web_search" -> run.outcome.kind \in {"status_error", "raises"}
      [] run.node = "snowflake_search" ->
            \/ run.outcome.kind = "raises"
            \/ run.outcome.kind = "insights"
               /\ StartsWith(run.outcome.summary, "Error generating insights: ")
ErrorText(run) ==
    CASE run.node = "rag_search" -> RagResult(run.outcome)
      [] run.node = "web_search" -> WebResult(run.outcome)
      [] run.node = "snowflake_search" -> SnowflakeResult(run.outcome)
ErrorRuns == {i \in 1..Len(adapter_runs) : ErrorResult(adapter_runs[i])}
KeptOf(node, collected) ==
    CASE node = "rag_search" -> collected.rag_result
      [] node = "web_search" -> collected.web_result
      [] node = "snowflake_search" -> collected.snowflake_result
C25_NothingRetried ==
    RunStarted =>
        \A i \in ErrorRuns :
            LET run == adapter_runs[i]
                tool == ToolOfNode[run.node]
                result == ResultOfNode[run.node]
            IN  /\ tool \in used_real_tools(state)
                /\ tool \notin unused_tools(state)
                /\ NodeRuns(run.node) = 1
                /\ Cardinality(StepsWith(tool)) = 1
                /\ Cardinality(StepsWith(result)) = 1
                /\ FirstOf(result).log = ErrorText(run)
                /\ pc = "final_answer" =>
                      KeptOf(run.node, CollectResults(state)) = ErrorText(run)
                /\ FinalRan => KeptOf(run.node, Extracted) = ErrorText(run)

\* A combined-mode run in which all three adapters ran, one of them returned
\* an error result, and the finalizer has answered
C25_Witness ==
    /\ FinalRan /\ Combined
    /\ Len(adapter_runs) = 3
    /\ ErrorRuns # {}

\* C26: the metadata filter the vector-search adapter builds from
\* year_quarter_dict accepts a record (year y, quarter q) if and only if y is
\* a key of the dictionary and q is in the quarter list of y; a year with an
\* empty quarter list accepts nothing.
FilteredSearches ==
    {i \in 1..Len(adapter_runs) :
        adapter_runs[i].node = "rag_search" /\ adapter_runs[i].outcome.kind = "returns"}
Selected_Quarters(d, y) ==
    {q \in {"1", "2", "3", "4"} :
        \E k \in 1..Len(d) : d[k][1] = y /\ \E j \in 1..Len(d[k][2]) : d[k][2][j] = q}
C26_FilterAcceptsSelected ==
    RunStarted =>
        \A i \in FilteredSearches :
            LET d == request.year_quarter_dict
                f == adapter_runs[i].filter
            IN  /\ Len(f) = Len(d)
                /\ \A rec \in Records :
                      Matches(f, rec) <=>
                          (/\ \E k \in 1..Len(d) : d[k][1] = rec.year
                           /\ rec.quarter \in Selected_Quarters(d, rec.year))
                /\ \A k \in 1..Len(d) :
                      d[k][2] = <<>> =>
                          \A rec \in Records : rec.year = d[k][1] => ~Matches(f, rec)

\* The vector search ran with two selected years, one of them with no
\* quarter: records of the other year are accepted, none of the empty year
C26_Witness ==
    /\ RunStarted /\ FilteredSearches # {}
    /\ Len(request.year_quarter_dict) = 2
    /\ \E k \in 1..2 : request.year_quarter_dict[k][2] = <<>>
    /\ \E i \in FilteredSearches :
          /\ \E rec \in Records : Matches(adapter_runs[i].filter, rec)
          /\ \E rec \in Records : rec.year = "2023" /\ ~Matches(adapter_runs[i].filter, rec)

\* C27: in every reachable history the Actions alternate selection, result,
\* selection, result, ...: each result Action directly follows the selection
\* of the matching tool (pinecone before rag_search_result, web_search before
\* web_search_result, snowflake before snowflake_search_result,
\* final_answer before final_answer_result), and the router has sent the
\* run to a node only on a history whose last Action is the selection that
\* names that node.
ResultOfSelection ==
    [t \in SelectionNames |->
        CASE t = "pinecone" -> "rag_search_result"
          [] t = "web_search" -> "web_search_result"
          [] t = "snowflake" -> "snowflake_search_result"
          [] t = "final_answer" -> "final_answer_result"]
C27_SelectionResultAlternate ==
    RunStarted =>
        /\ \A i \in 1..Len(Steps) :
              IF i % 2 = 1
              THEN Steps[i].tool \in SelectionNames
              ELSE /\ Steps[i - 1].tool \in SelectionNames
                   /\ Steps[i].tool = ResultOfSelection[Steps[i - 1].tool]
        /\ pc \in AdapterNodes \cup {"final_answer"} =>
              /\ Len(Steps) % 2 = 1
              /\ IsSelection(LastStep)
              /\ pc = DictGet(tool_to_node, LastStep.tool)
        /\ pc \in {"oracle", "END"} => Len(Steps) % 2 = 0

\* A combined-mode run ended after four selections and four results
C27_Witness ==
    /\ Combined /\ pc = "END"
    /\ Len(Steps) = 8
    /\ LastStep.tool = "final_answer_result"

\* C28: every node leaves the input, the mode and the metadata_filters of
\* the run unchanged: an execution of the oracle or of an adapter changes
\* only intermediate_steps, an execution of final_answer changes only
\* intermediate_steps and output.
Changed(old, new) ==
    {k \in DOMAIN old \cup DOMAIN new :
        k \notin DOMAIN old \/ k \notin DOMAIN new \/ old[k] # new[k]}
NodeKeepsRunInputs ==
    pc \in NodePositions =>
         (/\ state'.input = state.input
          /\ state'.mode = state.mode
          /\ state'.metadata_filters = state.metadata_filters
          /\ pc \in AdapterNodes \cup {"oracle"} =>
                Changed(state, state') \subseteq {"intermediate_steps"}
          /\ pc = "final_answer" =>
                Changed(state, state') \subseteq {"intermediate_steps", "output"}
          /\ state'.input = request.query
          /\ state'.mode = request.mode
          /\ state'.metadata_filters = request.year_quarter_dict)
C28_NodesKeepRunInputs == [][NodeKeepsRunInputs]_vars

\* A combined-mode run with two selected years ended with output written
\* and its input, mode and filters still those of the request
C28_Witness ==
    /\ Combined /\ pc = "END"
    /\ "output" \in DOMAIN state
    /\ Len(Steps) = 8
    /\ Len(state.metadata_filters) = 2
    /\ state.metadata_filters = request.year_quarter_dict
    /\ state.input = request.query

\* C29: for every run that completes, run_research_graph returns exactly the
\* finalizer's text, which is the log of the final_answer_result Action, the
\* last and only such Action of the history; a completed run never returns
\* the fallback message "No comprehensive results available...".
Completed == pc = "responded" /\ RunStarted /\ ~exception.raised
C29_ReturnsFinalizerText ==
    Completed =>
        /\ response.status = 200
        /\ StepsWith("final_answer_result") = {Len(Steps)}
        /\ response.body.result = LastStep.log
        /\ \E o \in FinalLLMOutcomes :
              /\ o.kind = "content"
              /\ response.body.result =
                    FinalResponse([state EXCEPT
                                      !.intermediate_steps = SubSeq(Steps, 1, Len(Steps) - 1)],
                                  o.content)
        /\ "output" \in DOMAIN state => response.body.result = state.output
        /\ response.body.result # FallbackMessage

\* A completed combined-mode run whose end state carries no output key, so
\* that the text returned was found in the history
C29_Witness ==
    /\ Completed /\ Combined
    /\ "output" \notin DOMAIN state
    /\ Len(Steps) = 8
    /\ response.body.result = LastStep.log

\* C30: the /research handler is the only guard on mode: when
\* run_research_graph is started with a mode outside pinecone, web_search,
\* snowflake, combined, the state carries that mode as given, the first
\* oracle decision raises with no tool chosen, before the model is consulted
\* and before any Action is appended, and the run ends in that error with an
\* empty history: no adapter and no final_answer runs, nothing is returned.
StartedWithInvalidMode ==
    /\ RunStarted
    /\ \A i \in 1..Len(valid_modes) : valid_modes[i] # request.mode
C30_InvalidModeFailsAtOracle ==
    StartedWithInvalidMode =>
        /\ state.mode = request.mode
        /\ Steps = <<>>
        /\ adapter_runs = <<>> /\ llm_calls = 0
        /\ response = NoResponse
        /\ \/ pc = "oracle" /\ trace = <<>> /\ ~exception.raised
           \/ /\ pc = "raised" /\ trace = <<"oracle">>
              /\ exception.raised
              /\ exception.message = "UnboundLocalError: chosen_tool"

\* A run started directly with mode "hybrid" has failed in its first oracle
\* decision
C30_Witness ==
    /\ StartedWithInvalidMode /\ request.mode = "hybrid"
    /\ pc = "raised" /\ trace = <<"oracle">>
    /\ Steps = <<>>

=============================================================================
